---- MODULE Spec2Model ----
(***************************************************************************)
(* Printomat receipt-printer broker: the Job Store (print_requests table), *)
(* the printer WebSocket endpoint of src/server/app.py with its delivery   *)
(* loop, and the printer client of src/client/main.py.                     *)
(*                                                                         *)
(* The Job Store is durable: the rows present when the server process      *)
(* starts are an input of the program.  Init draws them from a bounded     *)
(* set of queued rows; time 0 is the start of the process, so the rows     *)
(* carry created_at values below 0.                                        *)
(*                                                                         *)
(* The clock counts ticks of TickSeconds seconds.  A connection occupies   *)
(* the lowest free slot of Sessions.                                       *)
(***************************************************************************)
EXTENDS Integers, Sequences, FiniteSets, TLC

\* ---------------------------------------------------------------- bounds
MaxJobs == 2          \* rows of print_requests
MaxTime == 4          \* the clock runs 0..MaxTime
MaxSessions == 2      \* concurrent WebSocket connections
MaxConnects == 2      \* accepted connections over a run
MaxInject == 1        \* messages a peer sends that answer no job
MaxRefused == 1       \* connection attempts refused over a run
MaxRestarts == 1      \* process restarts over a run

\* ------------------------------------------------- configuration values
SendInterval == 2     \* queue.send_interval_seconds, in ticks
Cooldown == 3         \* rate_limit.user_cooldown_hours, in ticks
QueueMaxSize == 2     \* queue.max_size
TickSeconds == 90     \* seconds per tick
WS_1008_POLICY_VIOLATION == 1008

Null == "NULL"
Stamp == "utcnow"    \* a printed_at that is set
IPs == {"ipA", "ipB"}
Sessions == 1..MaxSessions
Tokens == {"valid", "wrong", "none"}
AckKinds == {"success", "failed", "failed_noreason", "not_json", "not_object"}

VARIABLES
    jobs,               \* print_requests: Seq of rows, the index is the id
    now,                \* time.time() / datetime.utcnow()
    printer_connected,  \* global flag, app.py:92
    sess,               \* per connection: the locals of websocket_printer_endpoint
    outbox,             \* per connection: server -> printer messages not yet read
    inbox,              \* per connection: printer -> server messages not yet read;
                        \* "answers" names the job the printer processed (0:
                        \* none) and is not part of the message on the wire
    picked,             \* history: ids moved from queued to printing, in order
    sent,               \* history: ids passed to send_json, in order
    session_count,      \* history: connections accepted so far
    injected,           \* history: peer messages that answer no job
    refused,            \* history: close codes sent to refused connection attempts
    restarts            \* history: process restarts so far

vars == <<jobs, now, printer_connected, sess, outbox, inbox, picked, sent,
          session_count, injected, refused, restarts>>

\* ------------------------------------------------------------ Job Store
JobIds == DOMAIN jobs

\* PrintRequest row as persisted with status "queued"
PrintRequest(prio, ip, created) ==
    [is_priority |-> prio, submitter_ip |-> ip, status |-> "queued",
     created_at |-> created, printed_at |-> Null, error_message |-> Null]

WithStatus(st) == {j \in JobIds : jobs[j].status = st}

\* mutant: ORDER BY created_at ASC alone
SortsBeforeByAgeOnly(a, b) == jobs[a].created_at < jobs[b].created_at

\* mutant: ORDER BY is_priority DESC, created_at DESC
SortsBeforeNewestFirst(a, b) ==
    \/ jobs[a].is_priority /\ ~jobs[b].is_priority
    \/ /\ jobs[a].is_priority = jobs[b].is_priority
       /\ jobs[a].created_at > jobs[b].created_at

\* ORDER BY is_priority DESC, created_at ASC: a sorts strictly before b
SortsBefore(a, b) ==
    \/ jobs[a].is_priority /\ ~jobs[b].is_priority
    \/ /\ jobs[a].is_priority = jobs[b].is_priority
       /\ jobs[a].created_at < jobs[b].created_at

\* mutant: a printing row that no connection holds is a candidate again
NextMessageResume ==
    LET candidates ==
            WithStatus("queued") \cup
            {j \in WithStatus("printing") :
                \A s \in DOMAIN sess : /\ sess[s].currently_printing_id # j
                                       /\ sess[s].next_message # j}
    IN  {j \in candidates : \A k \in candidates : ~SortsBefore(k, j)}

\* the rows .first() may return: the order among equal keys is unspecified
NextMessage ==
    {j \in WithStatus("queued") :
        \A k \in WithStatus("queued") : ~SortsBefore(k, j)}

\* ------------------------------------------------------------ admission
\* the columns of PrintRequest, models.py:13-23
PrintRequestColumns ==
    {"id", "type", "message_content", "image_content", "submitter_ip",
     "is_priority", "friendship_token_name", "status", "created_at",
     "printed_at", "error_message"}

\* the keyword arguments of PrintRequest(...) at app.py:281-290
SubmitKwargs ==
    {"type", "message_content", "image_content", "submitter_ip", "is_priority",
     "friendship_token_label", "friendship_token_name", "status"}

\* the declarative constructor raises TypeError for a keyword that is no
\* attribute of the mapped class
ConstructorAccepts(kwargs) == kwargs \subseteq PrintRequestColumns

\* config.get_friendship_token_by_value: the configured token values
FriendshipTokens == {"friend"}
SubmitTokens == {"none", "friend", "bad"}

\* app.py:149
MinutesUntilRetry(retry_after_seconds) == (retry_after_seconds \div 60) + 1

\* mutant: the lookup skips the rows of priority submissions
check_rate_limit_anonymous_rows(ip) ==
    LET recent == {j \in JobIds : /\ jobs[j].submitter_ip = ip
                                  /\ ~jobs[j].is_priority
                                  /\ jobs[j].created_at > now - Cooldown}
    IN  IF recent = {}
        THEN <<TRUE, 0>>
        ELSE LET last_request ==
                     CHOOSE j \in recent :
                        \A k \in recent : jobs[k].created_at <= jobs[j].created_at
                 retry_after_seconds ==
                     (Cooldown - (now - jobs[last_request].created_at)) * TickSeconds
             IN  IF retry_after_seconds > 0
                 THEN <<FALSE, MinutesUntilRetry(retry_after_seconds)>>
                 ELSE <<TRUE, 0>>

\* app.py:131-152: <<is_allowed, minutes_until_retry>>
check_rate_limit(ip) ==
    LET recent == {j \in JobIds : /\ jobs[j].submitter_ip = ip
                                  /\ jobs[j].created_at > now - Cooldown}
    IN  IF recent = {}
        THEN <<TRUE, 0>>
        ELSE LET last_request ==
                     CHOOSE j \in recent :
                        \A k \in recent : jobs[k].created_at <= jobs[j].created_at
                 retry_after_seconds ==
                     (Cooldown - (now - jobs[last_request].created_at)) * TickSeconds
             IN  IF retry_after_seconds > 0
                 THEN <<FALSE, MinutesUntilRetry(retry_after_seconds)>>
                 ELSE <<TRUE, 0>>

\* app.py:155-168 on table t: rows with an equal key are taken in id order
get_queue_position(t, request_id) ==
    Cardinality({k \in DOMAIN t :
        /\ t[k].status = "queued"
        /\ \/ t[k].is_priority /\ ~t[request_id].is_priority
           \/ /\ t[k].is_priority = t[request_id].is_priority
              /\ \/ t[k].created_at < t[request_id].created_at
                 \/ t[k].created_at = t[request_id].created_at /\ k < request_id})

\* app.py:305-335: the answer once the row request_id of table t is persisted
accepted_response(t, request_id, token_data) ==
    LET position == get_queue_position(t, request_id)
        estimated_wait == position * 1
    IN  [status |-> IF token_data # Null THEN "printing_immediately"
                    ELSE "queued",
         position |-> position,
         estimated_wait_minutes |-> estimated_wait]

\* mutant: the attempt is recorded as a row before it is validated
RejectedButRecorded(error) ==
    [status |-> "error", error |-> error, minutes |-> 0, position |-> 0,
     estimated_wait_minutes |-> 0,
     jobs |-> Append(jobs, [PrintRequest(FALSE, "ipA", now)
                               EXCEPT !.status = "failed"])]

\* app.py:216-269, 295-303: an error response; nothing is written
Rejected(error) ==
    [status |-> "error", error |-> error, minutes |-> 0, position |-> 0,
     estimated_wait_minutes |-> 0, jobs |-> jobs]

\* mutant: the capacity check runs before the rate limit
process_submit_request_capacity_first(ip, message, image, token) ==
    LET token_data == IF token \in FriendshipTokens THEN token ELSE Null
        rate == check_rate_limit(ip)
        queued_count ==
            Cardinality(WithStatus("queued") \cup WithStatus("printing"))
        added == Append(jobs, PrintRequest(token_data # Null, ip, now))
    IN  IF ~message /\ ~image
        THEN Rejected("invalid_request")
        ELSE IF token # "none" /\ token_data = Null
        THEN Rejected("invalid_token")
        ELSE IF token_data = Null /\ queued_count >= QueueMaxSize
        THEN Rejected("queue_full")
        ELSE IF token_data = Null /\ ~rate[1]
        THEN [Rejected("rate_limited") EXCEPT !.minutes = rate[2]]
        ELSE IF ~ConstructorAccepts(SubmitKwargs)
        THEN Rejected("database_error")
        ELSE LET response == accepted_response(added, Len(added), token_data)
             IN  [status |-> response.status, error |-> Null, minutes |-> 0,
                  position |-> response.position,
                  estimated_wait_minutes |-> response.estimated_wait_minutes,
                  jobs |-> added]

\* mutant: a token that does not resolve is taken as no token
process_submit_request_fallback(ip, message, image, token) ==
    LET token_data == IF token \in FriendshipTokens THEN token ELSE Null
        rate == check_rate_limit(ip)
        queued_count ==
            Cardinality(WithStatus("queued") \cup WithStatus("printing"))
        added == Append(jobs, PrintRequest(token_data # Null, ip, now))
    IN  IF ~message /\ ~image
        THEN Rejected("invalid_request")
        ELSE IF token_data = Null /\ ~rate[1]
        THEN [Rejected("rate_limited") EXCEPT !.minutes = rate[2]]
        ELSE IF token_data = Null /\ queued_count >= QueueMaxSize
        THEN Rejected("queue_full")
        ELSE IF ~ConstructorAccepts(SubmitKwargs)
        THEN Rejected("database_error")
        ELSE LET response == accepted_response(added, Len(added), token_data)
             IN  [status |-> response.status, error |-> Null, minutes |-> 0,
                  position |-> response.position,
                  estimated_wait_minutes |-> response.estimated_wait_minutes,
                  jobs |-> added]

\* mutant: the rate limit and the capacity check apply to priority requests too
process_submit_request_no_bypass(ip, message, image, token) ==
    LET token_data == IF token \in FriendshipTokens THEN token ELSE Null
        rate == check_rate_limit(ip)
        queued_count ==
            Cardinality(WithStatus("queued") \cup WithStatus("printing"))
        added == Append(jobs, PrintRequest(token_data # Null, ip, now))
    IN  IF ~message /\ ~image
        THEN Rejected("invalid_request")
        ELSE IF token # "none" /\ token_data = Null
        THEN Rejected("invalid_token")
        ELSE IF ~rate[1]
        THEN [Rejected("rate_limited") EXCEPT !.minutes = rate[2]]
        ELSE IF queued_count >= QueueMaxSize
        THEN Rejected("queue_full")
        ELSE IF ~ConstructorAccepts(SubmitKwargs)
        THEN Rejected("database_error")
        ELSE LET response == accepted_response(added, Len(added), token_data)
             IN  [status |-> response.status, error |-> Null, minutes |-> 0,
                  position |-> response.position,
                  estimated_wait_minutes |-> response.estimated_wait_minutes,
                  jobs |-> added]

\* mutant: only queued rows count against the capacity
process_submit_request_queued_only(ip, message, image, token) ==
    LET token_data == IF token \in FriendshipTokens THEN token ELSE Null
        rate == check_rate_limit(ip)
        queued_count ==
            Cardinality(WithStatus("queued"))
        added == Append(jobs, PrintRequest(token_data # Null, ip, now))
    IN  IF ~message /\ ~image
        THEN Rejected("invalid_request")
        ELSE IF token # "none" /\ token_data = Null
        THEN Rejected("invalid_token")
        ELSE IF token_data = Null /\ ~rate[1]
        THEN [Rejected("rate_limited") EXCEPT !.minutes = rate[2]]
        ELSE IF token_data = Null /\ queued_count >= QueueMaxSize
        THEN Rejected("queue_full")
        ELSE IF ~ConstructorAccepts(SubmitKwargs)
        THEN Rejected("database_error")
        ELSE LET response == accepted_response(added, Len(added), token_data)
             IN  [status |-> response.status, error |-> Null, minutes |-> 0,
                  position |-> response.position,
                  estimated_wait_minutes |-> response.estimated_wait_minutes,
                  jobs |-> added]

\* app.py:209-335: the response and the table the handler leaves
process_submit_request(ip, message, image, token) ==
    LET token_data == IF token \in FriendshipTokens THEN token ELSE Null
        rate == check_rate_limit(ip)
        queued_count ==
            Cardinality(WithStatus("queued") \cup WithStatus("printing"))
        added == Append(jobs, PrintRequest(token_data # Null, ip, now))
    IN  IF ~message /\ ~image
        THEN Rejected("invalid_request")
        ELSE IF token # "none" /\ token_data = Null
        THEN Rejected("invalid_token")
        ELSE IF token_data = Null /\ ~rate[1]
        THEN [Rejected("rate_limited") EXCEPT !.minutes = rate[2]]
        ELSE IF token_data = Null /\ queued_count >= QueueMaxSize
        THEN Rejected("queue_full")
        ELSE IF ~ConstructorAccepts(SubmitKwargs)
        THEN Rejected("database_error")
        ELSE LET response == accepted_response(added, Len(added), token_data)
             IN  [status |-> response.status, error |-> Null, minutes |-> 0,
                  position |-> response.position,
                  estimated_wait_minutes |-> response.estimated_wait_minutes,
                  jobs |-> added]

\* what a request carries: the client address, whether a message and an
\* image are present, the token
SubmitInputs ==
    [ip : IPs, message : BOOLEAN, image : BOOLEAN, token : SubmitTokens]

\* POST /submit, app.py:341-417: some request is handled
Submit ==
    /\ jobs' \in {process_submit_request(i.ip, i.message, i.image, i.token).jobs :
                    i \in SubmitInputs}
    /\ Len(jobs') > Len(jobs) => Len(jobs') <= MaxJobs
    /\ UNCHANGED <<now, printer_connected, sess, outbox, inbox, picked, sent,
                   session_count, injected, refused, restarts>>

\* -------------------------------------------------------------- console
\* the attributes of the original row that do_retry reads, console.py:356-362
RetryReads ==
    {"type", "message_content", "image_content", "submitter_ip", "source_type",
     "is_priority", "friendship_token_name"}

\* the keyword arguments of PrintRequest(...) at console.py:355-364
RetryKwargs == RetryReads \cup {"status"}

\* do_retry, console.py:306-379, on table t once the operator has answered the
\* prompt: the table it leaves and what it printed. Reading an attribute the
\* row does not have raises AttributeError inside the try of console.py:354,
\* which the handler at console.py:375 reports.
do_retry(t, request_id, confirm) ==
    IF request_id \notin DOMAIN t
    THEN [jobs |-> t, outcome |-> "not_found"]
    ELSE IF ~confirm
    THEN [jobs |-> t, outcome |-> "cancelled"]
    ELSE IF ~(RetryReads \subseteq PrintRequestColumns)
              \/ ~ConstructorAccepts(RetryKwargs)
    THEN [jobs |-> t, outcome |-> "failed_to_create"]
    ELSE [jobs |-> Append(t, PrintRequest(t[request_id].is_priority,
                                          t[request_id].submitter_ip, now)),
          outcome |-> "created"]

\* what the operator types: an id and the answer to the prompt
RetryInputs == [request_id : 1..(MaxJobs + 1), confirm : BOOLEAN]

\* the console command "retry <id>" is run
Retry ==
    /\ jobs' \in {do_retry(jobs, i.request_id, i.confirm).jobs : i \in RetryInputs}
    /\ Len(jobs') > Len(jobs) => Len(jobs') <= MaxJobs
    /\ UNCHANGED <<now, printer_connected, sess, outbox, inbox, picked, sent,
                   session_count, injected, refused, restarts>>

\* ------------------------------------------------------- delivery loop
ClosedSession ==
    [pc |-> "closed", last_send_time |-> 0, currently_printing_id |-> 0,
     next_message |-> 0, current_time |-> 0]

Connected(s) == sess[s].pc # "closed"

\* mutant: the interval gates priority messages too
ShouldSendThrottled(s, j) == now - sess[s].last_send_time >= SendInterval

\* mutant: the interval gates nothing
ShouldSendAlways(s, j) == TRUE

\* app.py:464-471
ShouldSend(s, j) ==
    \/ jobs[j].is_priority
    \/ now - sess[s].last_send_time >= SendInterval

\* app.py:497
SendClock(s) == sess[s].current_time

\* mutant: the connection is accepted and flagged before the token is checked
ConnectAcceptFirst(s, tok) ==
    /\ sess[s].pc = "closed"
    /\ \A q \in 1..(s - 1) : Connected(q)
    /\ session_count < MaxConnects
    /\ IF tok # "valid"
       THEN /\ Len(refused) < MaxRefused
            /\ refused' = Append(refused, WS_1008_POLICY_VIOLATION)
            /\ printer_connected' = TRUE
            /\ UNCHANGED <<jobs, now, sess, outbox, inbox, picked, sent,
                           session_count, injected, restarts>>
       ELSE /\ printer_connected' = TRUE
            /\ sess' = [sess EXCEPT ![s] =
                   [ClosedSession EXCEPT !.pc = "poll", !.last_send_time = now]]
            /\ session_count' = session_count + 1
            /\ UNCHANGED <<jobs, now, outbox, inbox, picked, sent, injected,
                           refused, restarts>>

\* mutant: the send clock of a new session starts one interval in the past
ConnectClockElapsed(s, tok) ==
    /\ sess[s].pc = "closed"
    /\ \A q \in 1..(s - 1) : Connected(q)
    /\ session_count < MaxConnects
    /\ IF tok # "valid"
       THEN /\ Len(refused) < MaxRefused
            /\ refused' = Append(refused, WS_1008_POLICY_VIOLATION)
            /\ UNCHANGED <<jobs, now, printer_connected, sess, outbox, inbox,
                           picked, sent, session_count, injected, restarts>>
       ELSE /\ printer_connected' = TRUE
            /\ sess' = [sess EXCEPT ![s] =
                   [ClosedSession EXCEPT !.pc = "poll",
                                         !.last_send_time = now - SendInterval]]
            /\ session_count' = session_count + 1
            /\ UNCHANGED <<jobs, now, outbox, inbox, picked, sent, injected,
                           refused, restarts>>

\* app.py:431-446: the handshake
Connect(s, tok) ==
    /\ sess[s].pc = "closed"
    /\ \A q \in 1..(s - 1) : Connected(q)
    /\ session_count < MaxConnects
    /\ IF tok # "valid"
       THEN \* websocket.close(code=1008) before accept, then return
            /\ Len(refused) < MaxRefused
            /\ refused' = Append(refused, WS_1008_POLICY_VIOLATION)
            /\ UNCHANGED <<jobs, now, printer_connected, sess, outbox, inbox,
                           picked, sent, session_count, injected, restarts>>
       ELSE /\ printer_connected' = TRUE
            /\ sess' = [sess EXCEPT ![s] =
                   [ClosedSession EXCEPT !.pc = "poll", !.last_send_time = now]]
            /\ session_count' = session_count + 1
            /\ UNCHANGED <<jobs, now, outbox, inbox, picked, sent, injected,
                           refused, restarts>>

\* mutant: the row is selected but "printing" is not committed before the send
PollWithoutCommit(s) ==
    /\ sess[s].pc = "poll"
    /\ IF NextMessage = {}
       THEN /\ sess' = [sess EXCEPT ![s].pc = "recv"]
            /\ UNCHANGED <<jobs, picked>>
       ELSE \E j \in NextMessage :
              IF ShouldSend(s, j)
              THEN /\ jobs' = jobs
                   /\ picked' = Append(picked, j)
                   /\ sess' = [sess EXCEPT ![s].pc = "sending",
                                           ![s].next_message = j,
                                           ![s].current_time = now]
              ELSE /\ sess' = [sess EXCEPT ![s].pc = "recv"]
                   /\ UNCHANGED <<jobs, picked>>
    /\ UNCHANGED <<now, printer_connected, outbox, inbox, sent, session_count,
                   injected, refused, restarts>>

\* app.py:450-477: top of one loop iteration up to the commit of "printing"
Poll(s) ==
    /\ sess[s].pc = "poll"
    /\ IF NextMessage = {}
       THEN /\ sess' = [sess EXCEPT ![s].pc = "recv"]
            /\ UNCHANGED <<jobs, picked>>
       ELSE \E j \in NextMessage :
              IF ShouldSend(s, j)
              THEN /\ jobs' = [jobs EXCEPT ![j].status = "printing"]
                   /\ picked' = Append(picked, j)
                   /\ sess' = [sess EXCEPT ![s].pc = "sending",
                                           ![s].next_message = j,
                                           ![s].current_time = now]
              ELSE /\ sess' = [sess EXCEPT ![s].pc = "recv"]
                   /\ UNCHANGED <<jobs, picked>>
    /\ UNCHANGED <<now, printer_connected, outbox, inbox, sent, session_count,
                   injected, refused, restarts>>

\* app.py:479-497: send_json returns
Transmit(s) ==
    /\ sess[s].pc = "sending"
    /\ outbox' = [outbox EXCEPT ![s] = Append(@, sess[s].next_message)]
    /\ sent' = Append(sent, sess[s].next_message)
    /\ sess' = [sess EXCEPT ![s].pc = "recv",
                            ![s].currently_printing_id = sess[s].next_message,
                            ![s].last_send_time = SendClock(s),
                            ![s].next_message = 0,
                            ![s].current_time = 0]
    /\ UNCHANGED <<jobs, now, printer_connected, inbox, picked, session_count,
                   injected, refused, restarts>>

\* mutant: the error is logged and the row is left as it is
TransmitErrorLogged(s) ==
    /\ sess[s].pc = "sending"
    /\ sess' = [sess EXCEPT ![s].pc = "recv",
                            ![s].next_message = 0,
                            ![s].current_time = 0]
    /\ UNCHANGED <<jobs, now, printer_connected, outbox, inbox, picked, sent,
                   session_count, injected, refused, restarts>>

\* app.py:501-505: send_json raises something other than a disconnect
TransmitError(s) ==
    /\ sess[s].pc = "sending"
    /\ jobs' = [jobs EXCEPT ![sess[s].next_message].status = "failed",
                            ![sess[s].next_message].error_message =
                                "Server error sending to printer"]
    /\ sess' = [sess EXCEPT ![s].pc = "recv",
                            ![s].next_message = 0,
                            ![s].current_time = 0]
    /\ UNCHANGED <<now, printer_connected, outbox, inbox, picked, sent,
                   session_count, injected, refused, restarts>>

\* mutant: the session's Jobs still printing go back to queued
EndSessionRequeue(s) ==
    /\ printer_connected' = FALSE
    /\ sess' = [sess EXCEPT ![s] = ClosedSession]
    /\ outbox' = [outbox EXCEPT ![s] = <<>>]
    /\ inbox' = [inbox EXCEPT ![s] = <<>>]
    /\ jobs' = [j \in JobIds |->
                  IF /\ jobs[j].status = "printing"
                     /\ j \in {sess[s].currently_printing_id, sess[s].next_message}
                  THEN [jobs[j] EXCEPT !.status = "queued"]
                  ELSE jobs[j]]
    /\ UNCHANGED <<now, picked, sent, session_count, injected, refused, restarts>>

\* app.py:559-564: the session ends
EndSession(s) ==
    /\ printer_connected' = FALSE
    /\ sess' = [sess EXCEPT ![s] = ClosedSession]
    /\ outbox' = [outbox EXCEPT ![s] = <<>>]
    /\ inbox' = [inbox EXCEPT ![s] = <<>>]
    /\ UNCHANGED <<jobs, now, picked, sent, session_count, injected, refused, restarts>>

\* app.py:498-500: send_json raises WebSocketDisconnect or RuntimeError
TransmitDisconnect(s) ==
    /\ sess[s].pc = "sending"
    /\ EndSession(s)

\* app.py:553-555: receive_text raises WebSocketDisconnect or RuntimeError
ReceiveDisconnect(s) ==
    /\ sess[s].pc = "recv"
    /\ EndSession(s)

\* app.py:551-552: no message within the wait window
AckTimeout(s) ==
    /\ sess[s].pc = "recv"
    /\ inbox[s] = <<>>
    /\ sess' = [sess EXCEPT ![s].pc = "poll"]
    /\ UNCHANGED <<jobs, now, printer_connected, outbox, inbox, picked, sent,
                   session_count, injected, refused, restarts>>

\* the object an acknowledgment parses to; Null: the key is absent
AckData(ack) ==
    [status |-> IF ack = "success" THEN "success" ELSE "failed",
     error_message |-> IF ack = "failed" THEN "Print failed" ELSE Null]

\* ack_data.get("error_message", "Unknown error")
ErrorMessageOf(ack_data) ==
    IF ack_data.error_message # Null THEN ack_data.error_message
    ELSE "Unknown error"

\* mutant: a failure is recorded without printed_at
AckUpdateNoStamp(row, ack) ==
    IF AckData(ack).status = "success"
    THEN [row EXCEPT !.status = "printed", !.printed_at = Stamp]
    ELSE [row EXCEPT !.status = "failed",
                     !.error_message = ErrorMessageOf(AckData(ack))]

\* mutant: the message of the acknowledgment is stored on success too
AckUpdateAlwaysMessage(row, ack) ==
    IF AckData(ack).status = "success"
    THEN [row EXCEPT !.status = "printed", !.printed_at = Stamp,
                     !.error_message = ErrorMessageOf(AckData(ack))]
    ELSE [row EXCEPT !.status = "failed", !.printed_at = Stamp,
                     !.error_message = ErrorMessageOf(AckData(ack))]

\* app.py:530-541: the row update for a parsed acknowledgment
AckUpdate(row, ack) ==
    IF AckData(ack).status = "success"
    THEN [row EXCEPT !.status = "printed", !.printed_at = Stamp]
    ELSE [row EXCEPT !.status = "failed", !.printed_at = Stamp,
                     !.error_message = ErrorMessageOf(AckData(ack))]

\* mutant: with nothing in flight the acknowledgment goes to the Job sent last
ReceiveAckLastSent(s) ==
    /\ sess[s].pc = "recv"
    /\ inbox[s] # <<>>
    /\ inbox' = [inbox EXCEPT ![s] = Tail(@)]
    /\ LET ack == Head(inbox[s]).kind
           id == IF sess[s].currently_printing_id = 0 /\ sent # <<>>
                 THEN sent[Len(sent)]
                 ELSE sess[s].currently_printing_id
       IN  IF ack = "not_json" \/ id = 0
           THEN /\ sess' = [sess EXCEPT ![s].pc = "poll"]
                /\ UNCHANGED jobs
           ELSE /\ sess' = [sess EXCEPT ![s].pc = "poll",
                                        ![s].currently_printing_id = 0]
                /\ IF ack = "not_object"
                   THEN UNCHANGED jobs
                   ELSE jobs' = [jobs EXCEPT ![id] = AckUpdate(jobs[id], ack)]
    /\ UNCHANGED <<now, printer_connected, outbox, picked, sent, session_count,
                   injected, refused, restarts>>

\* mutant: the in-flight marker is left set after the row update
ReceiveAckKeepsMarker(s) ==
    /\ sess[s].pc = "recv"
    /\ inbox[s] # <<>>
    /\ inbox' = [inbox EXCEPT ![s] = Tail(@)]
    /\ LET ack == Head(inbox[s]).kind
           id == sess[s].currently_printing_id
       IN  IF ack = "not_json" \/ id = 0
           THEN /\ sess' = [sess EXCEPT ![s].pc = "poll"]
                /\ UNCHANGED jobs
           ELSE /\ sess' = [sess EXCEPT ![s].pc = "poll"]
                /\ IF ack = "not_object"
                   THEN UNCHANGED jobs
                   ELSE jobs' = [jobs EXCEPT ![id] = AckUpdate(jobs[id], ack)]
    /\ UNCHANGED <<now, printer_connected, outbox, picked, sent, session_count,
                   injected, refused, restarts>>

\* app.py:511-549: a message is read
ReceiveAck(s) ==
    /\ sess[s].pc = "recv"
    /\ inbox[s] # <<>>
    /\ inbox' = [inbox EXCEPT ![s] = Tail(@)]
    /\ LET ack == Head(inbox[s]).kind
           id == sess[s].currently_printing_id
       IN  IF ack = "not_json" \/ id = 0
           THEN \* json.loads raises, or nothing is in flight: continue
                /\ sess' = [sess EXCEPT ![s].pc = "poll"]
                /\ UNCHANGED jobs
           ELSE /\ sess' = [sess EXCEPT ![s].pc = "poll",
                                        ![s].currently_printing_id = 0]
                /\ IF ack = "not_object"
                   THEN \* ack_data.get raises, caught at app.py:544
                        UNCHANGED jobs
                   ELSE jobs' = [jobs EXCEPT ![id] = AckUpdate(jobs[id], ack)]
    /\ UNCHANGED <<now, printer_connected, outbox, picked, sent, session_count,
                   injected, refused, restarts>>

\* ------------------------------------------------------- printer client
\* client/main.py:435-456: the acknowledgment the client builds for a
\* message; parses: json.loads returns, success: what print_job returned
ClientAck(parses, success) ==
    IF ~parses
    THEN [status |-> "failed", error_message |-> "str(e)"]
    ELSE IF success
    THEN [status |-> "success", error_message |-> Null]
    ELSE [status |-> "failed", error_message |-> "Print failed"]

\* the message on the wire that parses to the object ack_data
AckKindOf(ack_data) == CHOOSE k \in AckKinds : AckData(k) = ack_data

\* mutant: a failed print is logged and not acknowledged
ClientPrintSilentFailure(s, success) ==
    /\ outbox[s] # <<>>
    /\ outbox' = [outbox EXCEPT ![s] = Tail(@)]
    /\ inbox' = [inbox EXCEPT ![s] =
                    IF success
                    THEN Append(@, [kind |-> AckKindOf(ClientAck(TRUE, success)),
                                    answers |-> Head(outbox[s])])
                    ELSE @]
    /\ UNCHANGED <<jobs, now, printer_connected, sess, picked, sent,
                   session_count, injected, refused, restarts>>

\* client/main.py:429-451: one job read, printed, acknowledged; what the
\* server sends is the JSON text of an object (app.py:483-493), so it parses
ClientPrint(s, success) ==
    /\ outbox[s] # <<>>
    /\ outbox' = [outbox EXCEPT ![s] = Tail(@)]
    /\ inbox' = [inbox EXCEPT ![s] =
                    Append(@, [kind |-> AckKindOf(ClientAck(TRUE, success)),
                               answers |-> Head(outbox[s])])]
    /\ UNCHANGED <<jobs, now, printer_connected, sess, picked, sent,
                   session_count, injected, refused, restarts>>

\* a peer that holds the printer token sends a message that answers no job
PeerSend(s, ack) ==
    /\ Connected(s)
    /\ injected < MaxInject
    /\ inbox' = [inbox EXCEPT ![s] = Append(@, [kind |-> ack, answers |-> 0])]
    /\ injected' = injected + 1
    /\ UNCHANGED <<jobs, now, printer_connected, sess, outbox, picked, sent,
                   session_count, refused, restarts>>

\* ------------------------------------------------------ process restart
\* mutant: the restarted process puts the Jobs found printing back to queued
RestartRequeue ==
    /\ restarts < MaxRestarts
    /\ restarts' = restarts + 1
    /\ printer_connected' = FALSE
    /\ sess' = [s \in Sessions |-> ClosedSession]
    /\ outbox' = [s \in Sessions |-> <<>>]
    /\ inbox' = [s \in Sessions |-> <<>>]
    /\ jobs' = [j \in JobIds |->
                  IF jobs[j].status = "printing"
                  THEN [jobs[j] EXCEPT !.status = "queued"]
                  ELSE jobs[j]]
    /\ UNCHANGED <<now, picked, sent, session_count, injected, refused>>

\* the process stops at any point and is started again: the module globals
\* are initialized anew (app.py:91-92), every connection and the locals of
\* its handler are gone, startup_event (app.py:172-188) touches no row, and
\* the table is what was last committed
Restart ==
    /\ restarts < MaxRestarts
    /\ restarts' = restarts + 1
    /\ printer_connected' = FALSE
    /\ sess' = [s \in Sessions |-> ClosedSession]
    /\ outbox' = [s \in Sessions |-> <<>>]
    /\ inbox' = [s \in Sessions |-> <<>>]
    /\ UNCHANGED <<jobs, now, picked, sent, session_count, injected, refused>>

\* ------------------------------------------------------------- time
Tick ==
    /\ now < MaxTime
    /\ now' = now + 1
    /\ UNCHANGED <<jobs, printer_connected, sess, outbox, inbox, picked, sent,
                   session_count, injected, refused, restarts>>

\* ------------------------------------------------------ specification
\* the submitters of the rows found in the store
StoredIPs == {"ipA"}

\* created_at of the stored rows: non-decreasing in id, all before time 0
StoredRows(n) ==
    {r \in [1..n -> [is_priority : BOOLEAN, submitter_ip : StoredIPs,
                     created_at : (0 - n)..(0 - 1)]] :
        /\ n > 0 => r[1].created_at = 0 - n
        /\ \A i \in 1..(n - 1) :
              r[i + 1].created_at - r[i].created_at \in {0, 1}}

\* the process has just started: nothing connected, nothing in flight
Started ==
    /\ now = 0
    /\ printer_connected = FALSE
    /\ sess = [s \in Sessions |-> ClosedSession]
    /\ outbox = [s \in Sessions |-> <<>>]
    /\ inbox = [s \in Sessions |-> <<>>]
    /\ picked = <<>>
    /\ sent = <<>>
    /\ session_count = 0
    /\ injected = 0
    /\ refused = <<>>
    /\ restarts = 0

Init ==
    /\ \E n \in 0..MaxJobs : \E r \in StoredRows(n) :
          jobs = [i \in 1..n |->
                    PrintRequest(r[i].is_priority, r[i].submitter_ip,
                                 r[i].created_at)]
    /\ Started

\* the store of the scenario: anonymous J1, J2, J3, then priority J4
ScenarioRows ==
    [i \in 1..4 |-> PrintRequest(i = 4, "ipA", i - 5)]

ScenarioInit ==
    /\ jobs = ScenarioRows
    /\ Started

Next ==
    \/ Tick
    \/ Submit
    \/ Retry
    \/ \E s \in Sessions, tok \in Tokens : Connect(s, tok)
    \/ \E s \in Sessions : Poll(s)
    \/ \E s \in Sessions : Transmit(s)
    \/ \E s \in Sessions : TransmitError(s)
    \/ \E s \in Sessions : TransmitDisconnect(s)
    \/ \E s \in Sessions : AckTimeout(s)
    \/ \E s \in Sessions : ReceiveAck(s)
    \/ \E s \in Sessions : ReceiveDisconnect(s)
    \/ \E s \in Sessions, ok \in BOOLEAN : ClientPrint(s, ok)

Spec == Init /\ [][Next]_vars

ScenarioSpec == ScenarioInit /\ [][Next]_vars

\* the same system with a peer that also sends messages answering no job
PeerNext == Next \/ \E s \in Sessions, a \in AckKinds : PeerSend(s, a)

\* the store of the peer runs: priority J1, then anonymous J2
PeerRows ==
    <<PrintRequest(TRUE, "ipA", 0 - 2), PrintRequest(FALSE, "ipA", 0 - 1)>>

PeerInit ==
    /\ jobs = PeerRows
    /\ Started

PeerSpec == PeerInit /\ [][PeerNext]_vars

\* the same system when the process may also be restarted
RestartNext == Next \/ Restart

RestartSpec == PeerInit /\ [][RestartNext]_vars

\* ================================================================ claims
Terminal == {"printed", "failed"}
ConnectedSessions == {s \in Sessions : Connected(s)}

\* session s moves job j from queued to printing in this step
Picks(s, j) ==
    /\ sess[s].pc = "poll"
    /\ sess'[s].pc = "sending"
    /\ sess'[s].next_message = j
    /\ jobs[j].status = "queued"
    /\ jobs'[j].status = "printing"

\* send_json returns for session s in this step
Sends(s) ==
    /\ sess[s].pc = "sending"
    /\ sess'[s].pc = "recv"
    /\ sent' = Append(sent, sess[s].next_message)

\* session s reads a message from the printer in this step
Receives(s) ==
    /\ sess[s].pc = "recv"
    /\ sess'[s].pc = "poll"
    /\ inbox[s] # <<>>
    /\ inbox'[s] = Tail(inbox[s])

\* C1: in every reachable state at most one Job has status printing.
C1_AtMostOnePrinting == Cardinality(WithStatus("printing")) <= 1

\* C2: at most one printer session is connected at any instant; a second
\* attempt with the valid token is refused while one is connected.
C2_SingleSession == Cardinality(ConnectedSessions) <= 1

\* C3: every Job is eventually delivered when the one session stays connected
\* and the printer acknowledges every job it receives.  Stated on the final
\* result: once the only session ever accepted, still connected, has nothing
\* left to send and no message in either direction is pending, no Job is still
\* queued or printing.
C3_AllDelivered ==
    (/\ session_count = 1
     /\ injected = 0
     /\ \E s \in Sessions :
           /\ sess[s].pc \in {"poll", "recv"}
           /\ outbox[s] = <<>>
           /\ inbox[s] = <<>>
     /\ WithStatus("queued") = {})
    => WithStatus("printing") = {}

ScenarioOrder == <<4, 1, 2, 3>>

C4_PickStep ==
    \A s \in Sessions, j \in JobIds :
        (Picks(s, j) /\ ~jobs[j].is_priority)
        => \A k \in WithStatus("queued") : ~jobs[k].is_priority

\* C4: whenever the delivery loop moves a non-priority Job from queued to
\* printing, no priority Job is queued at that moment; with anonymous J1, J2,
\* J3 and then priority J4 in the store, Jobs leave the queue in the order
\* J4, J1, J2, J3.
C4_PriorityFirst ==
    /\ [][C4_PickStep]_vars
    /\ [](picked = SubSeq(ScenarioOrder, 1, Len(picked)))

C4_Witness == picked = ScenarioOrder

C5_PickStep ==
    \A s \in Sessions, j \in JobIds :
        Picks(s, j)
        => \A k \in WithStatus("queued") :
              jobs[k].is_priority = jobs[j].is_priority
              => jobs[k].created_at >= jobs[j].created_at

\* C5: within one priority class delivery is FIFO: whenever a Job is moved
\* from queued to printing, no queued Job of the same class has an earlier
\* created_at.
C5_FifoWithinClass == [][C5_PickStep]_vars

C5_Witness ==
    /\ Len(picked) = 2
    /\ jobs[picked[1]].is_priority = jobs[picked[2]].is_priority
    /\ jobs[picked[1]].created_at < jobs[picked[2]].created_at

StatusSteps ==
    {<<"queued", "printing">>, <<"printing", "printed">>,
     <<"printing", "failed">>}

C6_StatusStep ==
    \A j \in JobIds :
        jobs'[j].status # jobs[j].status
        => <<jobs[j].status, jobs'[j].status>> \in StatusSteps

\* C6: every status change of a Job is queued->printing, printing->printed or
\* printing->failed; printed and failed are never left and no Job re-enters
\* queued.
C6_MonotonicStatus == [][C6_StatusStep]_vars

C6_Witness ==
    /\ session_count = 2
    /\ WithStatus("printed") # {}
    /\ WithStatus("failed") # {}

C7_PickStep ==
    \A s \in Sessions, j \in JobIds :
        Picks(s, j) => sess[s].currently_printing_id = 0

\* C7: the delivery loop moves a Job to printing only when the session has no
\* Job in flight.
C7_NoPickWhileInFlight == [][C7_PickStep]_vars

C8_PollStep ==
    \A s \in Sessions :
        (/\ sess[s].pc = "poll"
         /\ sess'[s].pc # "poll"
         /\ \E k \in WithStatus("queued") : jobs[k].is_priority)
        => \E j \in JobIds : Picks(s, j) /\ jobs[j].is_priority

\* C8: whenever a priority Job is at the head of the queue at a poll of the
\* delivery loop, the loop sends it in that iteration, however little time
\* has elapsed since the last send.
C8_PriorityImmediate == [][C8_PollStep]_vars

C8_Witness ==
    \E s \in Sessions :
        /\ sess[s].pc = "sending"
        /\ jobs[sess[s].next_message].is_priority
        /\ sess[s].current_time - sess[s].last_send_time < SendInterval
        /\ sent # <<>>

C9_PickStep ==
    \A s \in Sessions, j \in JobIds :
        (Picks(s, j) /\ ~jobs[j].is_priority)
        => now - sess[s].last_send_time >= SendInterval

\* C9: a non-priority Job is moved to printing only if the time elapsed since
\* the session's last successful send is at least the send interval.
C9_IntervalRespected == [][C9_PickStep]_vars

C9_Witness ==
    \E s \in Sessions :
        /\ session_count = 1
        /\ sess[s].pc = "sending"
        /\ ~jobs[sess[s].next_message].is_priority
        /\ sent # <<>>

C10_SendStep ==
    \A s \in Sessions :
        (Sends(s) /\ jobs[sess[s].next_message].is_priority)
        => sess'[s].last_send_time = sess[s].last_send_time

\* C10: sending a priority Job leaves the send-interval clock unchanged; only
\* a non-priority send resets it.
C10_PriorityKeepsClock == [][C10_SendStep]_vars

C11_AckStep ==
    \A s \in Sessions, j \in JobIds :
        (/\ Receives(s)
         /\ sess[s].currently_printing_id = j
         /\ Head(inbox[s]).kind \in {"success", "failed", "failed_noreason"})
        => LET ack_data == AckData(Head(inbox[s]).kind)
           IN  /\ jobs'[j].printed_at # Null
               /\ IF ack_data.status = "success"
                  THEN /\ jobs'[j].status = "printed"
                       /\ jobs'[j].error_message = Null
                  ELSE /\ jobs'[j].status = "failed"
                       /\ jobs'[j].error_message =
                              IF ack_data.error_message # Null
                              THEN ack_data.error_message
                              ELSE "Unknown error"

\* C11: when an acknowledgment is read for the Job J in flight, success leaves
\* J printed with printed_at set and no error_message; failed leaves J failed
\* with printed_at set and error_message equal to the reason in the
\* acknowledgment, or to "Unknown error" when the acknowledgment has none.
C11_AckRoundTrip == [][C11_AckStep]_vars

C11_Witness ==
    /\ \E j \in JobIds : jobs[j].status = "printed" /\ jobs[j].printed_at # Null
    /\ \E j \in JobIds : /\ jobs[j].status = "failed"
                         /\ jobs[j].printed_at # Null
                         /\ jobs[j].error_message = "Unknown error"

C12_AckStep ==
    \A s \in Sessions :
        Receives(s)
        => \A j \in JobIds :
              jobs'[j] # jobs[j] => j = Head(inbox[s]).answers

\* C12: with the printer client, which returns one acknowledgment per job
\* received, in order, a step that reads an acknowledgment changes no Job
\* other than the one the client produced it for.
C12_AckUpdatesOwnJob == [][C12_AckStep]_vars

C13_AckStep ==
    \A s \in Sessions :
        (Receives(s) /\ sess[s].currently_printing_id = 0)
        => /\ jobs' = jobs
           /\ sess'[s].currently_printing_id = 0
           /\ printer_connected' = printer_connected

\* C13: a message read while the session has no Job in flight changes no Job,
\* leaves the in-flight marker empty and leaves the session running.
C13_StrayAckDiscarded == [][C13_AckStep]_vars

C13_Witness ==
    /\ injected = 1
    /\ session_count = 1
    /\ sent = <<>>
    /\ \E s \in Sessions : sess[s].pc = "poll" /\ inbox[s] = <<>>

C14_AckStep ==
    \A s \in Sessions :
        (Receives(s) /\ Head(inbox[s]).kind \in {"not_json", "not_object"})
        => /\ jobs' = jobs
           /\ sess'[s].currently_printing_id = sess[s].currently_printing_id

\* C14: a message that is not JSON, or is JSON but not an object, is ignored:
\* the step that reads it changes no Job and leaves the session's in-flight
\* marker as it was, so the Job in flight can still be acknowledged.
C14_MalformedAckIgnored == [][C14_AckStep]_vars

\* session s ends in this step
Ends(s) == sess[s].pc # "closed" /\ sess'[s].pc = "closed"

\* j is printing and no connected session holds it: what a Job left by an
\* ended session is
Orphaned(j) ==
    /\ jobs[j].status = "printing"
    /\ \A s \in Sessions : /\ sess[s].currently_printing_id # j
                            /\ sess[s].next_message # j

C15_Step ==
    /\ \A s \in Sessions : Ends(s) => jobs' = jobs
    /\ \A j \in JobIds :
          Orphaned(j)
          => /\ jobs'[j] = jobs[j]
             /\ sent' = sent
                \/ sent'[Len(sent')] # j
             /\ \A s \in Sessions : sess'[s].next_message # j

\* C15: the end of a session changes no Job, and a Job left printing by an
\* ended session stays printing: teardown, later connections and later
\* delivery loops neither move it back to queued nor transmit it again.
C15_OrphanStaysPrinting == [][C15_Step]_vars

C15_Witness ==
    /\ session_count = 2
    /\ \E s \in Sessions : sess[s].currently_printing_id # 0
    /\ \E j \in JobIds :
          /\ Orphaned(j)
          /\ \E i \in DOMAIN picked : picked[i] = j
          /\ \A i \in DOMAIN sent : sent[i] # j

\* C16: printer_connected is TRUE exactly while some authenticated session's
\* delivery loop is running: it is never FALSE while a session is connected
\* and never TRUE once every session has ended.
C16_FlagMatchesSessions == printer_connected <=> ConnectedSessions # {}

C17_Step ==
    refused' # refused
    => /\ refused' = Append(refused, WS_1008_POLICY_VIOLATION)
       /\ printer_connected' = printer_connected
       /\ sess' = sess
       /\ jobs' = jobs
       /\ sent' = sent
       /\ outbox' = outbox

\* C17: a connection attempt with an absent or wrong token is closed with
\* code 1008 without being accepted: the connected flag, every session and
\* every Job stay as they were and nothing is transmitted.
C17_BadTokenRefused == [][C17_Step]_vars

C17_Witness ==
    /\ refused = <<WS_1008_POLICY_VIOLATION>>
    /\ session_count = 0
    /\ ~printer_connected
    /\ WithStatus("queued") # {}

\* the response to request i in the current state
Response(i) == process_submit_request(i.ip, i.message, i.image, i.token)

\* Jobs that count against the capacity
Pending == WithStatus("queued") \cup WithStatus("printing")

\* the four admission checks, each on its own
FailsPayload(i) == ~i.message /\ ~i.image
FailsCredential(i) == i.token # "none" /\ i.token \notin FriendshipTokens
FailsRate(i) ==
    /\ i.token \notin FriendshipTokens
    /\ \E j \in JobIds : /\ jobs[j].submitter_ip = i.ip
                         /\ now < jobs[j].created_at + Cooldown
FailsCapacity(i) ==
    /\ i.token \notin FriendshipTokens
    /\ Cardinality(Pending) >= QueueMaxSize

EarliestError(i) ==
    IF FailsPayload(i) THEN "invalid_request"
    ELSE IF FailsCredential(i) THEN "invalid_token"
    ELSE IF FailsRate(i) THEN "rate_limited"
    ELSE IF FailsCapacity(i) THEN "queue_full"
    ELSE Null

\* C18: a submission that fails one or more of the checks payload presence,
\* credential, rate limit, capacity is rejected with the error of the first
\* check it fails in that order.
C18_FirstFailureWins ==
    \A i \in SubmitInputs :
        EarliestError(i) # Null
        => /\ Response(i).status = "error"
           /\ Response(i).error = EarliestError(i)

C18_Witness ==
    /\ WithStatus("printing") # {}
    /\ \E i \in SubmitInputs :
          ~FailsPayload(i) /\ ~FailsCredential(i) /\ FailsRate(i) /\ FailsCapacity(i)
    /\ \E i \in SubmitInputs : FailsPayload(i) /\ FailsCredential(i)

\* C19: a submission with a payload and a token that is not in the credential
\* store is rejected with invalid_token; it is not treated as anonymous and
\* the table is left as it was.
C19_BadTokenRejected ==
    \A i \in SubmitInputs :
        (~FailsPayload(i) /\ FailsCredential(i))
        => /\ Response(i).status = "error"
           /\ Response(i).error = "invalid_token"
           /\ Response(i).jobs = jobs

C19_Witness ==
    /\ WithStatus("printed") # {}
    /\ \E i \in SubmitInputs :
          /\ ~FailsPayload(i) /\ FailsCredential(i)
          /\ ~FailsRate(i) /\ ~FailsCapacity(i)

\* created_at of the newest Job of submitter ip
LastCreated(ip) ==
    LET mine == {j \in JobIds : jobs[j].submitter_ip = ip}
    IN  jobs[CHOOSE j \in mine :
                \A k \in mine : jobs[k].created_at <= jobs[j].created_at].created_at

\* C20: for an anonymous submitter whose newest Job was created at T, a
\* submission with a payload before T + cooldown is rejected with rate_limited
\* and leaves the table as it was; at or after T + cooldown it is not
\* rate-limited, and it is accepted when the queue is below capacity.
C20_CooldownWindow ==
    \A i \in SubmitInputs :
        (/\ ~FailsPayload(i)
         /\ i.token = "none"
         /\ \E j \in JobIds : jobs[j].submitter_ip = i.ip)
        => IF now < LastCreated(i.ip) + Cooldown
           THEN /\ Response(i).error = "rate_limited"
                /\ Response(i).jobs = jobs
           ELSE /\ Response(i).error # "rate_limited"
                /\ Cardinality(Pending) < QueueMaxSize
                   => Response(i).status = "queued"

\* seconds left of the cooldown of submitter ip
RemainingSeconds(ip) == (LastCreated(ip) + Cooldown - now) * TickSeconds

CeilDiv(a, b) == (a + b - 1) \div b

\* C21: on a rate_limited rejection the reported minutes equal
\* ceil(remaining seconds / 60), also when the remaining seconds are an exact
\* multiple of 60.
C21_MinutesAreCeil ==
    \A i \in SubmitInputs :
        Response(i).error = "rate_limited"
        => Response(i).minutes = CeilDiv(RemainingSeconds(i.ip), 60)

\* C22: a submission with a payload and a resolving priority credential is
\* never rejected with rate_limited or queue_full, whatever the submitter's
\* recent Jobs and however many Jobs are queued or printing.
C22_PriorityBypass ==
    \A i \in SubmitInputs :
        (~FailsPayload(i) /\ i.token \in FriendshipTokens)
        => Response(i).error \notin {"rate_limited", "queue_full"}

C22_Witness ==
    /\ WithStatus("printing") # {}
    /\ Cardinality(Pending) >= QueueMaxSize
    /\ \E i \in SubmitInputs :
          /\ ~FailsPayload(i)
          /\ i.token \in FriendshipTokens
          /\ \E j \in JobIds : /\ jobs[j].submitter_ip = i.ip
                               /\ now < jobs[j].created_at + Cooldown

\* C23: an anonymous submission that passes the payload and rate-limit checks
\* is rejected with queue_full exactly when the number of Jobs queued or
\* printing is at least the configured maximum.
C23_QueueFullIff ==
    \A i \in SubmitInputs :
        (~FailsPayload(i) /\ i.token = "none" /\ ~FailsRate(i))
        => (Response(i).error = "queue_full"
            <=> Cardinality(Pending) >= QueueMaxSize)

C23_Witness ==
    /\ Cardinality(WithStatus("queued")) = QueueMaxSize - 1
    /\ Cardinality(WithStatus("printing")) = 1
    /\ \E i \in SubmitInputs :
          /\ ~FailsPayload(i) /\ i.token = "none" /\ ~FailsRate(i)
          /\ Response(i).error = "queue_full"

AdmissionErrors ==
    {"invalid_request", "invalid_token", "rate_limited", "queue_full"}

\* C24: a submission rejected with invalid_request, invalid_token,
\* rate_limited or queue_full leaves the table as it was: no row is added and
\* no row is changed.
C24_RejectionWritesNothing ==
    \A i \in SubmitInputs :
        Response(i).error \in AdmissionErrors => Response(i).jobs = jobs

C24_Witness ==
    /\ WithStatus("printing") # {}
    /\ \A e \in AdmissionErrors :
          \E i \in SubmitInputs : Response(i).error = e

\* C25: a submission that passes the payload, credential, rate-limit and
\* capacity checks adds exactly one row, queued, with is_priority true iff a
\* credential resolved, and is answered queued or printing_immediately.
C25_AdmittedIsPersisted ==
    \A i \in SubmitInputs :
        EarliestError(i) = Null
        => LET r == Response(i)
           IN  /\ r.error = Null
               /\ r.status = IF i.token \in FriendshipTokens
                             THEN "printing_immediately" ELSE "queued"
               /\ Len(r.jobs) = Len(jobs) + 1
               /\ SubSeq(r.jobs, 1, Len(jobs)) = jobs
               /\ r.jobs[Len(r.jobs)].status = "queued"
               /\ r.jobs[Len(r.jobs)].is_priority = (i.token \in FriendshipTokens)

\* the newest row of the table is queued: the table as it is when the
\* response to that row's submission is computed
NewestIsQueued ==
    /\ jobs # <<>>
    /\ jobs[Len(jobs)].status = "queued"
    /\ \A k \in JobIds : jobs[k].created_at <= jobs[Len(jobs)].created_at

\* the response computed for the newest row
NewestResponse ==
    accepted_response(jobs, Len(jobs),
                      IF jobs[Len(jobs)].is_priority THEN "friend" ELSE Null)

\* C26: the response to a persisted priority submission reports position 0,
\* also when other priority Jobs are queued ahead of it.
C26_PriorityPositionZero ==
    (NewestIsQueued /\ jobs[Len(jobs)].is_priority)
    => NewestResponse.position = 0

\* C27: the response to a persisted anonymous submission reports as position
\* the number of queued Jobs that precede the new Job in (priority DESC,
\* created_at ASC) order, and as estimated wait that position times the
\* configured send interval.
C27_PositionAndWait ==
    (NewestIsQueued /\ ~jobs[Len(jobs)].is_priority)
    => /\ NewestResponse.position =
             Cardinality(WithStatus("queued") \ {Len(jobs)})
       /\ NewestResponse.position >= 0
       /\ NewestResponse.estimated_wait_minutes * 60 =
             NewestResponse.position * SendInterval * TickSeconds

\* send_json raises for session s in this step
SendRaises(s) ==
    /\ sess[s].pc = "sending"
    /\ sess'[s].pc # "sending"
    /\ sent' = sent

C28_AnyErrorStep ==
    \A s \in Sessions :
        SendRaises(s)
        => /\ jobs'[sess[s].next_message].status = "failed"
           /\ jobs'[sess[s].next_message].error_message # Null
           /\ sess'[s].pc = "recv"

\* C28 as stated: whenever send_json raises, the Job is moved to failed with
\* a server-side error message and the session's loop goes on.
C28_SendErrorFailsJob == [][C28_AnyErrorStep]_vars

C28_AmendedStep ==
    \A s \in Sessions :
        SendRaises(s)
        => IF sess'[s].pc = "closed"
           THEN /\ jobs' = jobs
                /\ ~printer_connected'
           ELSE /\ jobs'[sess[s].next_message].status = "failed"
                /\ jobs'[sess[s].next_message].error_message =
                       "Server error sending to printer"
                /\ sess'[s].pc = "recv"
                /\ printer_connected' = printer_connected

\* C28 amended: when send_json raises an error that is not a disconnect, the
\* Job is moved to failed with a server-side error message and the loop goes
\* on; when it raises WebSocketDisconnect or RuntimeError the session ends
\* and the Job stays printing.
C28_SendErrorAmended == [][C28_AmendedStep]_vars

C28_Witness ==
    /\ session_count = 1
    /\ Len(picked) = 2
    /\ jobs[picked[1]].status = "failed"
    /\ jobs[picked[1]].error_message = "Server error sending to printer"
    /\ sent = <<picked[2]>>

\* C29: every Job whose status is printed or failed has printed_at set.
C29_TerminalHasPrintedAt ==
    \A j \in JobIds : jobs[j].status \in Terminal => jobs[j].printed_at # Null

\* C30: a Job has an error_message only if its status is failed.
C30_ErrorOnlyOnFailed ==
    \A j \in JobIds : jobs[j].error_message # Null => jobs[j].status = "failed"

C30_Witness ==
    /\ \E j \in JobIds : /\ jobs[j].status = "failed"
                         /\ jobs[j].error_message = "Print failed"
    /\ \E j \in JobIds : /\ jobs[j].status = "printed"
                         /\ jobs[j].error_message = Null

\* C31: an operator retry of a stored Job J, once confirmed, creates exactly
\* one new Job with status queued that carries J's priority and submitter,
\* and leaves J and every other stored row as it was.
C31_RetryCreatesJob ==
    \A j \in JobIds :
        LET t == do_retry(jobs, j, TRUE).jobs
        IN  /\ Len(t) = Len(jobs) + 1
            /\ t[Len(t)].status = "queued"
            /\ t[Len(t)].is_priority = jobs[j].is_priority
            /\ t[Len(t)].submitter_ip = jobs[j].submitter_ip
            /\ \A i \in JobIds : t[i] = jobs[i]

C32_Step ==
    restarts' # restarts
    => /\ ~printer_connected'
       /\ \A s \in Sessions : sess'[s] = ClosedSession
       /\ jobs' = jobs

C32_FreshAccepts ==
    (restarts > 0 /\ ConnectedSessions = {} /\ session_count < MaxConnects)
    => ENABLED (Connect(1, "valid") /\ Connected(1)')

\* C32: a process restart leaves no printer considered connected and no
\* session with a Job in flight, and changes no row, so a Job printing at
\* the crash is still printing and not queued again; and whenever no session
\* is connected after a restart, a connection attempt with the valid token
\* is accepted.
C32_RestartStartsFresh == [][C32_Step]_vars /\ []C32_FreshAccepts

\* after a restart a new session has been accepted and has picked nothing,
\* while Job 1, picked before the restart and never sent, is still printing
C32_Witness ==
    /\ restarts = 1
    /\ sess[1].pc = "poll"
    /\ picked = <<1>>
    /\ sent = <<>>
    /\ jobs[1].status = "printing"

NoDuplicates(q) == \A a, b \in DOMAIN q : q[a] = q[b] => a = b

\* C33: no Job is selected by a delivery loop more than once, by the same or
\* by another session, and no Job is passed to send_json more than once.
C33_AtMostOnceDelivery == NoDuplicates(picked) /\ NoDuplicates(sent)

\* two sessions are connected at once and each has sent a different Job
C33_Witness ==
    /\ Cardinality(ConnectedSessions) = 2
    /\ Len(sent) = 2
    /\ \A s \in Sessions : sess[s].currently_printing_id # 0

\* C34: in every reachable state the in-flight Job id of a session, when
\* set, is the id of a Job with status printing; so the row update that an
\* acknowledgment causes is applied to a printing Job only.
C34_InFlightIsPrinting ==
    \A s \in Sessions :
        sess[s].currently_printing_id # 0
        => jobs[sess[s].currently_printing_id].status = "printing"

\* an acknowledgment is waiting to be read by a session with a Job in flight
C34_Witness ==
    \E s \in Sessions :
        /\ sess[s].pc = "recv"
        /\ sess[s].currently_printing_id # 0
        /\ inbox[s] # <<>>
        /\ Head(inbox[s]).answers = sess[s].currently_printing_id

C35_AckStep ==
    \A s \in Sessions :
        (/\ Receives(s)
         /\ sess[s].currently_printing_id # 0
         /\ sess'[s].currently_printing_id = 0)
        => jobs'[sess[s].currently_printing_id].status \in Terminal

\* C35: whenever a session clears its in-flight marker on reading a message
\* from the printer, the Job that was in flight is printed or failed after
\* the step; the marker is not cleared while that Job is still printing.
C35_ClearedOnlyWhenDone == [][C35_AckStep]_vars

C36_Step ==
    \A s \in Sessions :
        /\ (~Connected(s) /\ Connected(s)') => sess'[s].last_send_time = now
        /\ (Connected(s) /\ Connected(s)')
           => sess'[s].last_send_time >= sess[s].last_send_time
        /\ \A j \in JobIds :
              (Picks(s, j) /\ ~jobs[j].is_priority)
              => now - sess[s].last_send_time >= SendInterval

\* C36: the send clock of a session starts at its establishment and never
\* moves back while the session lasts, and a non-priority Job is selected
\* only when a full send interval has passed on that clock; so the first
\* non-priority Job of a session is sent no earlier than one send interval
\* after establishment, also when it was queued before the printer connected.
C36_FirstSendWaits == [][C36_Step]_vars

\* the only session so far, established after time 0, has sent nothing and
\* has just selected a non-priority Job that was stored before it connected
C36_Witness ==
    \E s \in Sessions :
        /\ session_count = 1
        /\ sent = <<>>
        /\ sess[s].pc = "sending"
        /\ ~jobs[sess[s].next_message].is_priority
        /\ jobs[sess[s].next_message].created_at < 0
        /\ sess[s].last_send_time > 0
        /\ now - sess[s].last_send_time >= SendInterval

C38_RateLimitByAddress ==
    \A i \in SubmitInputs :
        (i.token = "none" /\ ~FailsPayload(i))
        => (Response(i).error = "rate_limited"
            <=> \E j \in JobIds : /\ jobs[j].submitter_ip = i.ip
                                  /\ now < jobs[j].created_at + Cooldown)

\* the only Jobs of ipA are priority Jobs, one of them inside the window:
\* an anonymous submission from ipA is rate-limited, one from ipB is not
C38_Witness ==
    /\ \E j \in JobIds : /\ jobs[j].submitter_ip = "ipA"
                         /\ now < jobs[j].created_at + Cooldown
    /\ \A j \in JobIds : jobs[j].is_priority
    /\ Response([ip |-> "ipA", message |-> TRUE, image |-> FALSE,
                 token |-> "none"]).error = "rate_limited"
    /\ Response([ip |-> "ipB", message |-> TRUE, image |-> FALSE,
                 token |-> "none"]).error # "rate_limited"

C39_Step ==
    /\ \A s \in Sessions :
          LET reads == /\ Connected(s)'
                       /\ outbox[s] # <<>>
                       /\ outbox'[s] = Tail(outbox[s])
              writes == Connected(s)' /\ inbox'[s] # inbox[s]
                                      /\ Len(inbox'[s]) >= Len(inbox[s])
          IN  /\ reads
                 => \E success \in BOOLEAN :
                       inbox'[s] =
                          Append(inbox[s],
                                 [kind |-> AckKindOf(ClientAck(TRUE, success)),
                                  answers |-> Head(outbox[s])])
              /\ writes => reads
    /\ \A parses, success \in BOOLEAN :
          LET ack == ClientAck(parses, success)
          IN  /\ ack.status = "success" <=> (parses /\ success)
              /\ ack.status # "success"
                 => ack.status = "failed" /\ ack.error_message # Null

\* C39: the printer client answers every message it reads from the server
\* with exactly one acknowledgment, in the order read, and sends nothing
\* else: success if and only if print_job returned true, otherwise failed
\* with an error message, also for a message that does not parse.
C39_OneAckPerMessage == [][C39_Step]_vars

\* the client has answered two messages of a session, the first with
\* success and the second with failed, and the server has read neither
C39_Witness ==
    \E s \in Sessions :
        /\ Len(inbox[s]) = 2
        /\ inbox[s][1].kind = "success"
        /\ inbox[s][2].kind = "failed"
        /\ inbox[s][1].answers # inbox[s][2].answers
        /\ inbox[s][1].answers = sent[1]

\* C40: the retry command acts on failed and printed Jobs only: for a Job
\* that is queued or printing a confirmed retry stops before the new row is
\* built and the table stays as it was.
C40_RetryOnlyTerminal ==
    \A j \in JobIds :
        jobs[j].status \notin Terminal
        => LET r == do_retry(jobs, j, TRUE)
           IN  /\ r.jobs = jobs
               /\ r.outcome \notin {"created", "failed_to_create"}

====
